---- MODULE Spec2Model ----
(***************************************************************************)
(* Model of scripts/extrude.py: the two mesh builders polygon_to_3d_top    *)
(* and polygon_side_walls, one loop iteration per step.                    *)
(*                                                                         *)
(* Python lists are sequences; a Python index v is position v + 1 of the   *)
(* sequence.  A coordinate is a pair <<x, y>>.  A height is a record so    *)
(* that the two non-finite floats can stand next to the finite ones.       *)
(***************************************************************************)
EXTENDS Integers, Sequences, FiniteSets, TLC

\* ---- bounds of the model ------------------------------------------------
MaxVerts == 3
MaxTris == 2
MaxPolys == 2

\* ---- generic helpers ----------------------------------------------------
Range(s) == {s[m] : m \in 1..Len(s)}

SeqsUpTo(S, len) == UNION {[1..m -> S] : m \in 0..len}

IsInjective(s) == \A a, b \in 1..Len(s) : s[a] = s[b] => a = b

RECURSIVE SumSeq(_)
SumSeq(s) == IF s = <<>> THEN 0 ELSE s[1] + SumSeq(Tail(s))

\* ---- heights: Python floats, finite or not ------------------------------
Fin(v) == [kind |-> "finite", val |-> v]
PosInf == [kind |-> "inf", val |-> 0]
NaN == [kind |-> "nan", val |-> 0]
IsFinite(h) == h.kind = "finite"
Heights == {Fin(0 - 2), Fin(0), Fin(5), PosInf, NaN}

\* ---- coordinates and rings ----------------------------------------------
\* Points in convex position, no two sharing an x or a y.
P(m) == <<m, m * m + 1>>
PtSet == {P(m) : m \in 1..MaxVerts}
Outline(len) == [m \in 1..len |-> P(m)]
Close(r) == IF r = <<>> THEN r ELSE Append(r, r[1])

\* Exterior coordinate lists of a lone Polygon: every coordinate list, closed
\* or not, with or without repeated points.
Exteriors == SeqsUpTo(PtSet, MaxVerts + 1)

\* Exterior coordinate lists of the constituents of a MultiPolygon.
PartRings ==
    {Outline(len) : len \in 0..MaxVerts} \cup {Close(Outline(len)) : len \in 1..MaxVerts}

\* ---- the geometry objects the two functions read ------------------------
\* polygon_side_walls reads poly.exterior.coords only.
WallPolygons == {[type |-> "Polygon", exterior |-> r] : r \in Exteriors}
WallParts == {[type |-> "Polygon", exterior |-> r] : r \in PartRings}

\* polygon_to_3d_top reads a polygon only through triangulate(poly), a
\* function of shapely.  Its answer for a polygon is carried by the polygon
\* (field tris): a list of triangles, each a closed ring of four coordinates.
\* Fewer than three distinct sites leave nothing to triangulate.  Nothing else
\* is assumed of the answer; in particular a ring may repeat a point.
ProperTri == <<P(1), P(2), P(3), P(1)>>
DegenerateTri == <<P(1), P(2), P(1), P(1)>>
TriRings == {ProperTri, DegenerateTri}
TwoPointRing == <<P(1), P(2), P(1), P(1)>>
TriangleRing == <<P(1), P(2), P(3), P(1)>>
TriangulationsOf(ext) ==
    IF Cardinality(Range(ext)) < 3
    THEN {<<>>}
    ELSE SeqsUpTo(TriRings, MaxTris) \ {<<>>}
TopPolygons ==
    UNION {{[type |-> "Polygon", exterior |-> e, tris |-> ts] : ts \in TriangulationsOf(e)} :
              e \in {TwoPointRing, TriangleRing}}

MultiOf(parts) ==
    {[type |-> "MultiPolygon", geoms |-> gs] : gs \in SeqsUpTo(parts, MaxPolys)}

triangulate(poly) == poly.tris

\* ---- pieces of the two loop bodies --------------------------------------
EmptyMesh == [x |-> <<>>, y |-> <<>>, z |-> <<>>, i |-> <<>>, j |-> <<>>, k |-> <<>>]

\* mutant: only the first constituent is taken
PolysFirstOnly(g) ==
    IF g.type = "MultiPolygon"
    THEN (IF g.geoms = <<>> THEN <<>> ELSE <<g.geoms[1]>>)
    ELSE <<g>>

\* isinstance(geometry, MultiPolygon) ? list(geometry.geoms) : [geometry]
Polys(g) == IF g.type = "MultiPolygon" THEN g.geoms ELSE <<g>>

\* coords[:3]
First3(coords) == SubSeq(coords, 1, IF Len(coords) < 3 THEN Len(coords) ELSE 3)

\* mutant: the third vertex is left on the base plane
TopVerticesBase(coords, zt) ==
    [m \in 1..Len(First3(coords)) |->
        <<First3(coords)[m][1], First3(coords)[m][2], IF m = 3 THEN Fin(0) ELSE zt>>]

\* x_coords, y_coords, z_coords of one triangle, as a list of vertices
TopVertices(coords, zt) ==
    [m \in 1..Len(First3(coords)) |-> <<First3(coords)[m][1], First3(coords)[m][2], zt>>]

\* the index triple appended to top_i, top_j, top_k
TopFace(off) == <<off + 0, off + 1, off + 2>>

\* mutant: the offset advances by one vertex too few
TopAdvanceShort(off) == off + 2

\* vertex_offset += 3
TopAdvance(off) == off + 3

\* mutant: the closing duplicate is kept
StripClosingNever(coords) == coords

\* if len(boundary) > 1 and boundary[0] == boundary[-1]: boundary = boundary[:-1]
StripClosing(coords) ==
    IF Len(coords) > 1 /\ coords[1] = coords[Len(coords)]
    THEN SubSeq(coords, 1, Len(coords) - 1)
    ELSE coords

\* mutant: the last edge does not wrap around to vertex 0
NextIndexNoWrap(i, len) == IF i + 1 < len THEN i + 1 ELSE i

\* (idx + 1) % n
NextIndex(i, len) == (i + 1) % len

\* top1, top2, bot1, bot2 of the edge from c1 to c2
WallVertices(c1, c2, zt) ==
    << <<c1[1], c1[2], zt>>, <<c2[1], c2[2], zt>>,
       <<c1[1], c1[2], Fin(0)>>, <<c2[1], c2[2], Fin(0)>> >>

\* mutant: the second triangle lists its vertices in the other order
WallFacesFlipped(off) == << <<off + 0, off + 1, off + 2>>, <<off + 1, off + 2, off + 3>> >>

\* the two index triples of one wall edge
WallFaces(off) == << <<off + 0, off + 1, off + 2>>, <<off + 1, off + 3, off + 2>> >>

\* vertex_offset += 4
WallAdvance(off) == off + 4

\* the extend and append calls: vertices go to x, y, z and faces to i, j, k
Extend(mesh, verts, faces) ==
    [x |-> mesh.x \o [m \in 1..Len(verts) |-> verts[m][1]],
     y |-> mesh.y \o [m \in 1..Len(verts) |-> verts[m][2]],
     z |-> mesh.z \o [m \in 1..Len(verts) |-> verts[m][3]],
     i |-> mesh.i \o [m \in 1..Len(faces) |-> faces[m][1]],
     j |-> mesh.j \o [m \in 1..Len(faces) |-> faces[m][2]],
     k |-> mesh.k \o [m \in 1..Len(faces) |-> faces[m][3]]]

\* ---- state --------------------------------------------------------------
VARIABLES
    fn,             \* the function called: "top" or "walls"
    geometry,       \* argument geometry
    z_top,          \* argument z_top
    pc,             \* "call", "loop", "returned"
    polys,          \* local polys
    p,              \* how many entries of polys the outer for has taken
    triangles,      \* local triangles of the current poly (top)
    t,              \* how many entries of triangles the inner for has taken
    boundary,       \* local boundary of the current poly (walls)
    n,              \* local n
    idx,            \* next value of idx in range(n)
    vertex_offset,  \* local vertex_offset
    top_mesh,       \* top_x, top_y, top_z, top_i, top_j, top_k
    wall_mesh,      \* wall_x, wall_y, wall_z, wall_i, wall_j, wall_k
    owner           \* history: for each vertex appended, the value of p then

vars == <<fn, geometry, z_top, pc, polys, p, triangles, t, boundary, n, idx,
          vertex_offset, top_mesh, wall_mesh, owner>>

Locals0 ==
    /\ pc = "call"
    /\ polys = <<>>
    /\ p = 0
    /\ triangles = <<>>
    /\ t = 0
    /\ boundary = <<>>
    /\ n = 0
    /\ idx = 0
    /\ vertex_offset = 0
    /\ top_mesh = EmptyMesh
    /\ wall_mesh = EmptyMesh
    /\ owner = <<>>

InitTop ==
    /\ fn = "top"
    /\ geometry \in TopPolygons \cup MultiOf(TopPolygons)
    /\ z_top \in Heights
    /\ Locals0

InitWalls ==
    /\ fn = "walls"
    /\ geometry \in WallPolygons \cup MultiOf(WallParts)
    /\ z_top \in Heights
    /\ Locals0

Init == InitTop \/ InitWalls

\* ---- polygon_to_3d_top --------------------------------------------------
TopEnter ==
    /\ pc = "call" /\ fn = "top"
    /\ polys' = Polys(geometry)
    /\ top_mesh' = EmptyMesh
    /\ vertex_offset' = 0
    /\ pc' = "loop"
    /\ UNCHANGED <<fn, geometry, z_top, p, triangles, t, boundary, n, idx, wall_mesh, owner>>

TopNextPoly ==
    /\ pc = "loop" /\ fn = "top"
    /\ t = Len(triangles)
    /\ p < Len(polys)
    /\ p' = p + 1
    /\ triangles' = triangulate(polys[p + 1])
    /\ t' = 0
    /\ UNCHANGED <<fn, geometry, z_top, pc, polys, boundary, n, idx, vertex_offset,
                   top_mesh, wall_mesh, owner>>

TopTriangle ==
    /\ pc = "loop" /\ fn = "top"
    /\ t < Len(triangles)
    /\ LET verts == TopVertices(triangles[t + 1], z_top) IN
        /\ top_mesh' = Extend(top_mesh, verts, <<TopFace(vertex_offset)>>)
        /\ owner' = owner \o [m \in 1..Len(verts) |-> p]
    /\ vertex_offset' = TopAdvance(vertex_offset)
    /\ t' = t + 1
    /\ UNCHANGED <<fn, geometry, z_top, pc, polys, p, triangles, boundary, n, idx, wall_mesh>>

TopReturn ==
    /\ pc = "loop" /\ fn = "top"
    /\ t = Len(triangles)
    /\ p = Len(polys)
    /\ pc' = "returned"
    /\ UNCHANGED <<fn, geometry, z_top, polys, p, triangles, t, boundary, n, idx,
                   vertex_offset, top_mesh, wall_mesh, owner>>

\* ---- polygon_side_walls -------------------------------------------------
WallsEnter ==
    /\ pc = "call" /\ fn = "walls"
    /\ wall_mesh' = EmptyMesh
    /\ vertex_offset' = 0
    /\ polys' = Polys(geometry)
    /\ pc' = "loop"
    /\ UNCHANGED <<fn, geometry, z_top, p, triangles, t, boundary, n, idx, top_mesh, owner>>

WallsNextPoly ==
    /\ pc = "loop" /\ fn = "walls"
    /\ idx = n
    /\ p < Len(polys)
    /\ p' = p + 1
    /\ boundary' = StripClosing(polys[p + 1].exterior)
    /\ n' = Len(boundary')
    /\ idx' = 0
    /\ UNCHANGED <<fn, geometry, z_top, pc, polys, triangles, t, vertex_offset,
                   top_mesh, wall_mesh, owner>>

WallsEdge ==
    /\ pc = "loop" /\ fn = "walls"
    /\ idx < n
    /\ LET verts == WallVertices(boundary[idx + 1], boundary[NextIndex(idx, n) + 1], z_top) IN
        /\ wall_mesh' = Extend(wall_mesh, verts, WallFaces(vertex_offset))
        /\ owner' = owner \o [m \in 1..Len(verts) |-> p]
    /\ vertex_offset' = WallAdvance(vertex_offset)
    /\ idx' = idx + 1
    /\ UNCHANGED <<fn, geometry, z_top, pc, polys, p, triangles, t, boundary, n, top_mesh>>

WallsReturn ==
    /\ pc = "loop" /\ fn = "walls"
    /\ idx = n
    /\ p = Len(polys)
    /\ pc' = "returned"
    /\ UNCHANGED <<fn, geometry, z_top, polys, p, triangles, t, boundary, n, idx,
                   vertex_offset, top_mesh, wall_mesh, owner>>

Next ==
    \/ TopEnter
    \/ TopNextPoly
    \/ TopTriangle
    \/ TopReturn
    \/ WallsEnter
    \/ WallsNextPoly
    \/ WallsEdge
    \/ WallsReturn

Spec == Init /\ [][Next]_vars

\* ---- what the claims speak of -------------------------------------------
Returned(f) == pc = "returned" /\ fn = f

\* Python index v of a coordinate list
At(list, v) == list[v + 1]

\* the edges polygon_side_walls walks, in processing order: for every
\* constituent, boundary vertex m to boundary vertex m + 1, the last to the first
EdgesOf(ext) ==
    LET b == StripClosing(ext) IN
    [m \in 1..Len(b) |-> <<b[m], b[(m % Len(b)) + 1]>>]

RECURSIVE AllEdges(_)
AllEdges(ps) == IF ps = <<>> THEN <<>> ELSE EdgesOf(ps[1].exterior) \o AllEdges(Tail(ps))

\* number of wall edges emitted before constituent q is reached
EdgeBase(ps, q) == SumSeq([m \in 1..(q - 1) |-> Len(StripClosing(ps[m].exterior))])

\* a boundary of pairwise distinct points, given open or with its first point repeated last
DistinctBoundary(ext) ==
    \/ IsInjective(ext)
    \/ /\ Len(ext) > 1
       /\ ext[1] = ext[Len(ext)]
       /\ IsInjective(SubSeq(ext, 1, Len(ext) - 1))

\* a triangle of the triangulation with fewer than 3 distinct points
IsDegenerate(tri) == Cardinality(Range(tri)) < 3

ProperCount(ts) == Cardinality({m \in 1..Len(ts) : ~IsDegenerate(ts[m])})

\* triangles a call on the polygon alone returns
AloneCount(poly) ==
    IF fn = "top" THEN Len(triangulate(poly)) ELSE 2 * Len(StripClosing(poly.exterior))

Result == IF fn = "top" THEN top_mesh ELSE wall_mesh

\* C1: a lone polygon whose boundary is n >= 3 pairwise distinct points, closed
\* or not, gets 4n wall vertices and 2n wall triangles, and every boundary
\* vertex is the start (top1) of exactly one edge.
C1_WallCounts ==
    (/\ Returned("walls")
     /\ geometry.type = "Polygon"
     /\ DistinctBoundary(geometry.exterior)
     /\ Cardinality(Range(geometry.exterior)) >= 3)
    => LET nn == Cardinality(Range(geometry.exterior)) IN
        /\ Len(wall_mesh.x) = 4 * nn
        /\ Len(wall_mesh.y) = 4 * nn
        /\ Len(wall_mesh.z) = 4 * nn
        /\ Len(wall_mesh.i) = 2 * nn
        /\ Len(wall_mesh.j) = 2 * nn
        /\ Len(wall_mesh.k) = 2 * nn
        /\ \A c \in Range(geometry.exterior) :
              Cardinality({e \in 0..(nn - 1) :
                  <<At(wall_mesh.x, 4 * e), At(wall_mesh.y, 4 * e)>> = c}) = 1

C1_Witness ==
    /\ Returned("walls")
    /\ geometry.type = "Polygon"
    /\ geometry.exterior = Close(Outline(3))
    /\ Len(wall_mesh.x) = 12
    /\ Len(wall_mesh.i) = 6

\* C2: at every point of polygon_side_walls the vertex offset is 4 times the
\* number of edges emitted, and for every emitted edge e the vertices 4e..4e+3
\* are top1, top2, bot1, bot2 of that edge and the triangles 2e, 2e+1 are
\* (4e, 4e+1, 4e+2) and (4e+1, 4e+3, 4e+2); on return every edge is emitted.
C2_WallLayout ==
    (fn = "walls" /\ pc # "call")
    => LET edges == AllEdges(Polys(geometry))
           done == Len(wall_mesh.i) \div 2
       IN
        /\ Len(wall_mesh.i) = 2 * done
        /\ Len(wall_mesh.j) = 2 * done
        /\ Len(wall_mesh.k) = 2 * done
        /\ Len(wall_mesh.x) = 4 * done
        /\ Len(wall_mesh.y) = 4 * done
        /\ Len(wall_mesh.z) = 4 * done
        /\ vertex_offset = 4 * done
        /\ done <= Len(edges)
        /\ pc = "returned" => done = Len(edges)
        /\ \A e \in 0..(done - 1) :
            LET c1 == edges[e + 1][1]
                c2 == edges[e + 1][2]
                v(a) == <<At(wall_mesh.x, 4 * e + a), At(wall_mesh.y, 4 * e + a),
                          At(wall_mesh.z, 4 * e + a)>>
                f(a) == <<At(wall_mesh.i, 2 * e + a), At(wall_mesh.j, 2 * e + a),
                          At(wall_mesh.k, 2 * e + a)>>
            IN
            /\ v(0) = <<c1[1], c1[2], z_top>>
            /\ v(1) = <<c2[1], c2[2], z_top>>
            /\ v(2) = <<c1[1], c1[2], Fin(0)>>
            /\ v(3) = <<c2[1], c2[2], Fin(0)>>
            /\ f(0) = <<4 * e, 4 * e + 1, 4 * e + 2>>
            /\ f(1) = <<4 * e + 1, 4 * e + 3, 4 * e + 2>>

C2_Witness ==
    /\ Returned("walls")
    /\ geometry.type = "MultiPolygon"
    /\ Len(geometry.geoms) = 2
    /\ Len(wall_mesh.i) = 12
    /\ z_top = Fin(5)

\* C3: in the returned wall fragment, for every constituent with n boundary
\* vertices and every edge idx of it, top1 and bot1 of edge idx lie at the
\* (x, y) of top2 and bot2 of edge (idx - 1) mod n of the same constituent.
C3_Closure ==
    Returned("walls")
    => \A q \in 1..Len(Polys(geometry)) :
        LET nq == Len(StripClosing(Polys(geometry)[q].exterior))
            base == EdgeBase(Polys(geometry), q)
            xy(e, a) == IF 4 * e + a < Len(wall_mesh.x) /\ 4 * e + a < Len(wall_mesh.y)
                        THEN <<At(wall_mesh.x, 4 * e + a), At(wall_mesh.y, 4 * e + a)>>
                        ELSE <<"none", e, a>>
        IN \A e \in 0..(nq - 1) :
            LET prev == (e + nq - 1) % nq IN
            /\ xy(base + e, 0) = xy(base + prev, 1)
            /\ xy(base + e, 2) = xy(base + prev, 3)

C3_Witness ==
    /\ Returned("walls")
    /\ geometry.type = "MultiPolygon"
    /\ Len(geometry.geoms) = 2
    /\ \A q \in 1..2 : Len(StripClosing(geometry.geoms[q].exterior)) = 3
    /\ Len(wall_mesh.x) = 24

\* C4: polygon_side_walls never returns a fragment for a geometry one of whose
\* polygons has fewer than 3 distinct boundary points; stated for the case of
\* exactly 2.
C4_RejectsDegenerate ==
    ~(/\ Returned("walls")
      /\ \E q \in 1..Len(Polys(geometry)) :
            Cardinality(Range(StripClosing(Polys(geometry)[q].exterior))) = 2)

\* C5: no returned fragment holds a non-finite z, as rejecting every
\* non-finite z_top would ensure.
C5_RejectsNonFinite ==
    pc = "returned" => \A m \in 1..Len(Result.z) : IsFinite(Result.z[m])

\* C6: for a finite z_top every vertex of the top fragment has z = z_top.
C6_TopHeight ==
    (fn = "top" /\ IsFinite(z_top))
    => \A m \in 1..Len(top_mesh.z) : top_mesh.z[m] = z_top

C6_Witness ==
    /\ Returned("top")
    /\ z_top = Fin(0 - 2)
    /\ geometry.type = "MultiPolygon"
    /\ Len(top_mesh.z) = 12

\* C7: the triangle count of a call on a lone polygon is that polygon's own
\* count; a call on a MultiPolygon returns as many triangles as the calls on
\* its constituents alone return together; and the three indices of every
\* triangle name vertices appended for one constituent.
C7_Multipart ==
    pc = "returned"
    => /\ geometry.type = "Polygon" => Len(Result.i) = AloneCount(geometry)
       /\ geometry.type = "MultiPolygon"
            => Len(Result.i) =
                 SumSeq([q \in 1..Len(geometry.geoms) |-> AloneCount(geometry.geoms[q])])
       /\ Len(owner) = Len(Result.x)
       /\ Len(Result.j) = Len(Result.i)
       /\ Len(Result.k) = Len(Result.i)
       /\ \A m \in 1..Len(Result.i) :
            /\ {Result.i[m], Result.j[m], Result.k[m]} \subseteq 0..(Len(owner) - 1)
            /\ At(owner, Result.i[m]) = At(owner, Result.j[m])
            /\ At(owner, Result.j[m]) = At(owner, Result.k[m])

C7_Witness ==
    /\ Returned("top")
    /\ geometry.type = "MultiPolygon"
    /\ Len(geometry.geoms) = 2
    /\ Len(triangulate(geometry.geoms[1])) = 2
    /\ Len(triangulate(geometry.geoms[2])) = 1
    /\ Len(top_mesh.i) = 3
    /\ owner = <<1, 1, 1, 1, 1, 1, 2, 2, 2>>

\* C8: at every point of polygon_to_3d_top there are 3 vertices per triangle,
\* triangle number tt has the indices (3tt, 3tt + 1, 3tt + 2), and no index is
\* used by two triangles.
C8_TopLayout ==
    fn = "top"
    => /\ Len(top_mesh.x) = 3 * Len(top_mesh.i)
       /\ Len(top_mesh.y) = 3 * Len(top_mesh.i)
       /\ Len(top_mesh.z) = 3 * Len(top_mesh.i)
       /\ Len(top_mesh.j) = Len(top_mesh.i)
       /\ Len(top_mesh.k) = Len(top_mesh.i)
       /\ \A tt \in 0..(Len(top_mesh.i) - 1) :
            /\ At(top_mesh.i, tt) = 3 * tt
            /\ At(top_mesh.j, tt) = 3 * tt + 1
            /\ At(top_mesh.k, tt) = 3 * tt + 2
       /\ \A t1, t2 \in 1..Len(top_mesh.i) :
            t1 # t2 =>
              {top_mesh.i[t1], top_mesh.j[t1], top_mesh.k[t1]}
                \cap {top_mesh.i[t2], top_mesh.j[t2], top_mesh.k[t2]} = {}

C8_Witness ==
    /\ fn = "top"
    /\ pc = "loop"
    /\ p = 2
    /\ t < Len(triangles)
    /\ Len(top_mesh.i) = 3

\* C9: polygon_to_3d_top never returns an empty fragment for a geometry that
\* has a polygon with coordinates.
C9_RejectsNoTriangles ==
    ~(/\ Returned("top")
      /\ \E q \in 1..Len(Polys(geometry)) : Polys(geometry)[q].exterior # <<>>
      /\ Len(top_mesh.i) = 0)

====
